---- MODULE Spec2Model ----
(***************************************************************************)
(* Session controller of one game room (src/party/server.ts): the roster,  *)
(* roles, hit points, the minion AI tick and the win-condition evaluator.  *)
(*                                                                         *)
(* Numbers.  Hit points are JavaScript doubles; every hp constant of the   *)
(* code (100, 150, 20, 0.5, 500) and every damage the model sends is a     *)
(* multiple of 0.25, so hp is held exactly as a count of quarter points    *)
(* (HpUnit per point).  Coordinates are held as a count of 0.05 units      *)
(* (PosUnit per unit), which makes the speed 0.15 and the contact range    *)
(* 3.5 whole numbers; the minion's step is rounded to that grid.           *)
(***************************************************************************)
EXTENDS Integers, Sequences, FiniteSets, TLC

VARIABLES
    hasState,     \* room.getState() is not null
    order,        \* Object.keys(state.players): ids in insertion order
    players,      \* state.players: id -> Player
    minion,       \* state.minion: <<>> for null, <<m>> for a Minion m
    started,      \* state.started
    lastHitTime,  \* state.lastHitTime
    out,          \* the messages the last event sent, in order
    last,         \* the last event handled and its payload
    evalRan,      \* observer: the last event called checkWinCondition
    winners,      \* observer: winners named by game-over since the last start-game
    negSeen,      \* observer: some hit / minion-hit carried a negative damage
    joined,       \* observer: a join was handled since the last start-game
    events        \* number of events handled so far (bounds the exploration)

state == <<hasState, order, players, minion, started, lastHitTime>>
vars  == <<hasState, order, players, minion, started, lastHitTime,
           out, last, evalRan, winners, negSeen, joined, events>>

----------------------------------------------------------------------------
(* Bounds of the exploration *)

MaxEvents == 6

(* Units *)
HpUnit  == 4
PosUnit == 20

(* Program constants, in model units *)
DefaultHp     == 100 * HpUnit
HealAmount    == 20 * HpUnit
HealCap       == 150 * HpUnit
MinionHp      == 500 * HpUnit
\* mutant of ContactDamage: 0.25 in place of 0.5
ContactDamageQuarter == HpUnit \div 4
ContactDamage == HpUnit \div 2
Speed         == 3
ContactRange  == 70
InitMinDist   == 9999 * PosUnit

(* Inputs *)
\* connection ids; only Members send join and are named in move and hit
\* payloads (an id is unknown to the roster until its join), "c" only
\* connects, selects a character and is named in pickups
Conns == {"a", "b", "c"}
Members == {"a", "b"}
NoSourceId == ""
\* a coordinate beyond the initial minDist from every other coordinate of the model
Far == 2 * InitMinDist
\* data.x, data.z, data.rot of a move
Moves == { [x |-> 4,   z |-> 0, rot |-> 1],
           [x |-> 0,   z |-> 4, rot |-> 2],
           [x |-> 80,  z |-> 0, rot |-> 0],
           [x |-> Far, z |-> 0, rot |-> 0] }
\* data.damage of a hit: -20, 0, 99.75, 100 points
Damages == {-20 * HpUnit, 0, 100 * HpUnit - 1, 100 * HpUnit}
\* data.damage of a minion-hit: -250, 0, 250, 600 points
MinionDamages == {-250 * HpUnit, 0, 250 * HpUnit, 600 * HpUnit}
CharIndexes == {0, 1}
Weapons == {"none", "sword"}

----------------------------------------------------------------------------
(* Helpers *)

Min(a, b) == IF a < b THEN a ELSE b
Abs(a) == IF a < 0 THEN -a ELSE a
Range(s) == {s[i] : i \in 1..Len(s)}

\* Object.values(state.players), in key order
Values(ps, ord) == [i \in 1..Len(ord) |-> ps[ord[i]]]

\* room.broadcast(msg), room.broadcast(msg, without), conn.send(msg)
Broadcast(m) == [kind |-> "broadcast", without |-> {}, msg |-> m]
\* mutant of BroadcastExcept: the list of excluded connections left out
BroadcastExceptNobody(m, ex) == [kind |-> "broadcast", without |-> {}, msg |-> m]
BroadcastExcept(m, ex) == [kind |-> "broadcast", without |-> ex, msg |-> m]
Send(c, m) == [kind |-> "send", conn |-> c, msg |-> m]
\* connection c is handed message m: a broadcast reaches every connection of
\* the room but those excluded, a send reaches its connection
Receives(c, m) ==
    \/ m.kind = "broadcast" /\ c \notin m.without
    \/ m.kind = "send" /\ m.conn = c

\* the GameState object as serialised into init / game-start
Snapshot(ps, ord, m, st, lht) ==
    [players |-> Values(ps, ord), minion |-> m, started |-> st, lastHitTime |-> lht]

GameOver(w, r) == [type |-> "game-over", winner |-> w, reason |-> r]

----------------------------------------------------------------------------
(* checkWinCondition: the broadcasts it makes for players ps and minion m *)

AliveRunners(ps) == Cardinality({id \in DOMAIN ps : ps[id].role = "runner" /\ ps[id].hp > 0})
AliveHunter(ps) == \E id \in DOMAIN ps : ps[id].role = "hunter" /\ ps[id].hp > 0
MinionAlive(m) == m # <<>> /\ m[1].hp > 0

\* mutant of checkWinCondition: the two tests in the other order
checkWinConditionSwapped(ps, m) ==
    IF ~AliveHunter(ps) /\ ~MinionAlive(m)
    THEN <<Broadcast(GameOver("Runners", "Hunter & Minion Defeated"))>>
    ELSE IF AliveRunners(ps) = 0
         THEN <<Broadcast(GameOver("Hunter", "Runners Eliminated"))>>
         ELSE <<>>

\* mutant of checkWinCondition: silent once a game-over has been broadcast
checkWinConditionLatched(ps, m) ==
    IF winners # {} THEN <<>>
    ELSE IF AliveRunners(ps) = 0
    THEN <<Broadcast(GameOver("Hunter", "Runners Eliminated"))>>
    ELSE IF ~AliveHunter(ps) /\ ~MinionAlive(m)
         THEN <<Broadcast(GameOver("Runners", "Hunter & Minion Defeated"))>>
         ELSE <<>>

\* mutant of checkWinCondition: silent until the game has started
checkWinConditionWhenStarted(ps, m) ==
    IF ~started THEN <<>>
    ELSE IF AliveRunners(ps) = 0
    THEN <<Broadcast(GameOver("Hunter", "Runners Eliminated"))>>
    ELSE IF ~AliveHunter(ps) /\ ~MinionAlive(m)
         THEN <<Broadcast(GameOver("Runners", "Hunter & Minion Defeated"))>>
         ELSE <<>>

checkWinCondition(ps, m) ==
    IF AliveRunners(ps) = 0
    THEN <<Broadcast(GameOver("Hunter", "Runners Eliminated"))>>
    ELSE IF ~AliveHunter(ps) /\ ~MinionAlive(m)
         THEN <<Broadcast(GameOver("Runners", "Hunter & Minion Defeated"))>>
         ELSE <<>>

\* observer: the winners named in a sequence of messages
WinnersIn(msgs) ==
    {msgs[i].msg.winner : i \in {j \in 1..Len(msgs) : msgs[j].msg.type = "game-over"}}

----------------------------------------------------------------------------
Init ==
    /\ hasState = FALSE
    /\ order = <<>>
    /\ players = <<>>
    /\ minion = <<>>
    /\ started = FALSE
    /\ lastHitTime = 0
    /\ out = <<>>
    /\ last = [type |-> "none"]
    /\ evalRan = FALSE
    /\ winners = {}
    /\ negSeen = FALSE
    /\ joined = FALSE
    /\ events = 0

\* onConnect: an init message to the new connection when the state exists
OnConnect(c) ==
    /\ out' = IF hasState
              THEN <<Send(c, [type |-> "init",
                              state |-> Snapshot(players, order, minion, started, lastHitTime)])>>
              ELSE <<>>
    /\ last' = [type |-> "connect", conn |-> c]
    /\ evalRan' = FALSE
    /\ UNCHANGED <<state, winners, negSeen, joined>>

\* a connection closes: the server object defines no onClose, nothing runs
OnClose(c) ==
    /\ out' = <<>>
    /\ last' = [type |-> "close", conn |-> c]
    /\ evalRan' = FALSE
    /\ UNCHANGED <<state, winners, negSeen, joined>>

\* mutant of NewPlayer: the role of the entry it replaces is kept
NewPlayerKeepsRole(c) ==
    [id |-> c, x |-> 0, z |-> 0, rot |-> 0,
     role |-> IF c \in DOMAIN players THEN players[c].role ELSE "runner",
     hp |-> DefaultHp, weapon |-> "none", charIndex |-> 0]

NewPlayer(c) ==
    [id |-> c, x |-> 0, z |-> 0, rot |-> 0, role |-> "runner",
     hp |-> DefaultHp, weapon |-> "none", charIndex |-> 0]

\* case "join"
Join(c) ==
    /\ hasState' = TRUE
    /\ players' = [id \in DOMAIN players \cup {c} |->
                     IF id = c THEN NewPlayer(c) ELSE players[id]]
    /\ order' = IF c \in DOMAIN players THEN order ELSE Append(order, c)
    /\ out' = << Broadcast([type |-> "player-join",
                            players |-> [i \in 1..Len(order') |->
                                [id |-> players'[order'[i]].id,
                                 charIndex |-> players'[order'[i]].charIndex,
                                 hp |-> players'[order'[i]].hp,
                                 role |-> players'[order'[i]].role]]]),
                 Send(c, [type |-> "init",
                          state |-> Snapshot(players', order', minion, started, lastHitTime)]) >>
    /\ last' = [type |-> "join", conn |-> c]
    /\ evalRan' = FALSE
    /\ joined' = started
    /\ UNCHANGED <<minion, started, lastHitTime, winners, negSeen>>

\* case "select-char"
SelectChar(c, idx) ==
    /\ hasState' = TRUE
    /\ IF c \in DOMAIN players
       THEN /\ players' = [players EXCEPT ![c].charIndex = idx]
            /\ out' = <<Broadcast([type |-> "player-update", player |-> players'[c]])>>
       ELSE /\ players' = players
            /\ out' = <<>>
    /\ last' = [type |-> "select-char", conn |-> c, charIndex |-> idx]
    /\ evalRan' = FALSE
    /\ UNCHANGED <<order, minion, started, lastHitTime, winners, negSeen, joined>>

\* case "move"
Move(c, id, mv) ==
    /\ hasState' = TRUE
    /\ IF id \in DOMAIN players
       THEN /\ players' = [players EXCEPT ![id].x = mv.x, ![id].z = mv.z, ![id].rot = mv.rot]
            /\ out' = <<BroadcastExcept([type |-> "update", id |-> id,
                                         pos |-> [x |-> mv.x, z |-> mv.z], rot |-> mv.rot],
                                        {c})>>
       ELSE /\ players' = players
            /\ out' = <<>>
    /\ last' = [type |-> "move", conn |-> c, id |-> id, x |-> mv.x, z |-> mv.z, rot |-> mv.rot]
    /\ evalRan' = FALSE
    /\ UNCHANGED <<order, minion, started, lastHitTime, winners, negSeen, joined>>

\* mutant of StartRole: the comparison inverted
StartRoleInverted(id, hunterId) == IF id # hunterId THEN "hunter" ELSE "runner"

\* the role start-game gives player id when hunterId is the hunter
StartRole(id, hunterId) == IF id = hunterId THEN "hunter" ELSE "runner"

\* case "start-game"; k is Math.floor(Math.random() * playerIds.length) + 1
StartGame(k) ==
    /\ hasState' = TRUE
    /\ IF Len(order) = 0
       THEN /\ k = 1
            /\ out' = <<>>
            /\ UNCHANGED <<players, minion, started, winners, joined>>
       ELSE /\ k \in 1..Len(order)
            /\ players' = [id \in DOMAIN players |->
                             [players[id] EXCEPT !.role = StartRole(id, order[k]),
                                                 !.hp = DefaultHp,
                                                 !.weapon = "none"]]
            /\ minion' = <<[x |-> 0, z |-> 0, hp |-> MinionHp]>>
            /\ started' = TRUE
            /\ out' = <<Broadcast([type |-> "game-start",
                                   state |-> Snapshot(players', order, minion', started', lastHitTime)])>>
            /\ winners' = {}
            /\ joined' = FALSE
    /\ last' = [type |-> "start-game", k |-> k]
    /\ evalRan' = FALSE
    /\ UNCHANGED <<order, lastHitTime, negSeen>>

\* mutant of Damaged: the floor clamp left out
DamagedNoFloor(hp, dmg) == hp - dmg

\* target.hp -= damage; if (target.hp < 0) target.hp = 0
Damaged(hp, dmg) == IF hp - dmg < 0 THEN 0 ELSE hp - dmg

\* mutant of Healed: Math.min(150, ...) left out
HealedNoCap(ps, t, s) ==
    IF ps[t].hp = 0 /\ s # NoSourceId /\ s \in DOMAIN ps /\ ps[s].role = "hunter"
    THEN [ps EXCEPT ![s].hp = ps[s].hp + HealAmount]
    ELSE ps

\* mutant of Healed: the role test left out
HealedAnyRole(ps, t, s) ==
    IF ps[t].hp = 0 /\ s # NoSourceId /\ s \in DOMAIN ps
    THEN [ps EXCEPT ![s].hp = Min(HealCap, ps[s].hp + HealAmount)]
    ELSE ps

\* the heal rule, applied to the players ps after the damage to target t
Healed(ps, t, s) ==
    IF ps[t].hp = 0 /\ s # NoSourceId /\ s \in DOMAIN ps /\ ps[s].role = "hunter"
    THEN [ps EXCEPT ![s].hp = Min(HealCap, ps[s].hp + HealAmount)]
    ELSE ps

\* case "hit"
Hit(t, s, dmg) ==
    /\ hasState' = TRUE
    /\ IF t \in DOMAIN players
       THEN /\ players' = Healed([players EXCEPT ![t].hp = Damaged(players[t].hp, dmg)], t, s)
            /\ out' = <<Broadcast([type |-> "hit", targetId |-> t, hp |-> players'[t].hp])>>
                      \o checkWinCondition(players', minion)
            /\ evalRan' = TRUE
            /\ negSeen' = (negSeen \/ dmg < 0)
       ELSE /\ players' = players
            /\ out' = <<>>
            /\ evalRan' = FALSE
            /\ negSeen' = negSeen
    /\ winners' = winners \cup WinnersIn(out')
    /\ joined' = joined
    /\ last' = [type |-> "hit", targetId |-> t, sourceId |-> s, damage |-> dmg]
    /\ UNCHANGED <<order, minion, started, lastHitTime>>

\* mutant of MinionAfter: < in place of <=
MinionAfterStrict(m, hp) == IF hp < 0 THEN <<>> ELSE <<[m EXCEPT !.hp = hp]>>

\* if (state.minion.hp <= 0) state.minion = null
MinionAfter(m, hp) == IF hp <= 0 THEN <<>> ELSE <<[m EXCEPT !.hp = hp]>>

\* case "minion-hit"
MinionHit(dmg) ==
    /\ hasState' = TRUE
    /\ IF minion # <<>>
       THEN LET hp == minion[1].hp - dmg IN
            /\ minion' = MinionAfter(minion[1], hp)
            /\ out' = <<Broadcast([type |-> "minion-hit", hp |-> hp])>>
                      \o (IF minion' = <<>> THEN checkWinCondition(players, minion') ELSE <<>>)
            /\ evalRan' = (minion' = <<>>)
            /\ negSeen' = (negSeen \/ dmg < 0)
       ELSE /\ minion' = minion
            /\ out' = <<>>
            /\ evalRan' = FALSE
            /\ negSeen' = negSeen
    /\ winners' = winners \cup WinnersIn(out')
    /\ joined' = joined
    /\ last' = [type |-> "minion-hit", damage |-> dmg]
    /\ UNCHANGED <<order, players, started, lastHitTime>>

\* mutant of PickupOut: the existence check left out
PickupOutAlways(ps, id, w) ==
    <<Broadcast([type |-> "pickup", id |-> id, weapon |-> w])>>

\* mutant of PickupOut: the tail of the hit case (checkWinCondition) copied in
PickupOutWithEval(ps, id, w) ==
    IF id \in DOMAIN ps
    THEN <<Broadcast([type |-> "pickup", id |-> id, weapon |-> w])>>
         \o checkWinCondition(ps, minion)
    ELSE <<>>

\* the messages of a pickup on players ps
PickupOut(ps, id, w) ==
    IF id \in DOMAIN ps
    THEN <<Broadcast([type |-> "pickup", id |-> id, weapon |-> w])>>
    ELSE <<>>

\* case "pickup"
Pickup(id, w) ==
    /\ hasState' = TRUE
    /\ players' = IF id \in DOMAIN players
                  THEN [players EXCEPT ![id].weapon = w]
                  ELSE players
    /\ out' = PickupOut(players, id, w)
    /\ last' = [type |-> "pickup", id |-> id, weapon |-> w]
    /\ evalRan' = FALSE
    /\ UNCHANGED <<order, minion, started, lastHitTime, winners, negSeen, joined>>

\* a message whose type matches no case of the switch
UnknownType ==
    /\ hasState' = TRUE
    /\ out' = <<>>
    /\ last' = [type |-> "unknown"]
    /\ evalRan' = FALSE
    /\ UNCHANGED <<order, players, minion, started, lastHitTime, winners, negSeen, joined>>

----------------------------------------------------------------------------
(* onStart: the minion AI loop, one run of the setInterval callback *)

DistSq(p, m) == (p.x - m.x) * (p.x - m.x) + (p.z - m.z) * (p.z - m.z)

\* Math.hypot(...) >= 9999.  Every coordinate of the model is either within
\* 5 units of the origin or is Far, so the distance reaches 9999 exactly
\* when one axis alone does.
BeyondInitMinDist(p, m) == Abs(p.x - m.x) >= InitMinDist \/ Abs(p.z - m.z) >= InitMinDist

\* d < minDist, where best is <<>> (minDist = 9999) or <<id>> of the nearest so far
Closer(ps, p, m, best) ==
    /\ ~BeyondInitMinDist(p, m)
    /\ (best = <<>> \/ DistSq(p, m) < DistSq(ps[best[1]], m))

\* mutant of Targetable: the hp test left out
TargetableAnyHp(p) == p.role = "runner"

\* p.role === 'runner' && p.hp > 0
Targetable(p) == p.role = "runner" /\ p.hp > 0

\* the forEach over Object.values(state.players), from position i on
RECURSIVE NearestFrom(_, _, _, _, _)
NearestFrom(ps, ord, m, i, best) ==
    IF i > Len(ord) THEN best
    ELSE LET p == ps[ord[i]] IN
         NearestFrom(ps, ord, m, i + 1,
                     IF Targetable(p) /\ Closer(ps, p, m, best)
                     THEN <<p.id>> ELSE best)

Nearest(ps, ord, m) == NearestFrom(ps, ord, m, 1, <<>>)

\* (d / len) * speed for len = sqrt(lensq) > 0, rounded to the grid (half away from 0)
StepToward(d, lensq) ==
    LET n == Cardinality({k \in 1..Speed :
                            (2 * k - 1) * (2 * k - 1) * lensq <= 4 * Speed * Speed * d * d})
    IN IF d < 0 THEN -n ELSE n

\* the contact-damage test of the tick, nested in (len > 0) as in the source
Contact(lensq) == lensq > 0 /\ lensq < ContactRange * ContactRange

MinionInterval ==
    /\ IF ~hasState \/ ~started \/ minion = <<>>
       THEN /\ out' = <<>>
            /\ evalRan' = FALSE
            /\ UNCHANGED <<players, minion>>
       ELSE LET m == minion[1]
                n == Nearest(players, order, m)
            IN IF n = <<>>
               THEN /\ out' = <<Broadcast([type |-> "minion-update",
                                           x |-> m.x, z |-> m.z, hp |-> m.hp])>>
                    /\ evalRan' = FALSE
                    /\ UNCHANGED <<players, minion>>
               ELSE LET t == players[n[1]]
                        dx == t.x - m.x
                        dz == t.z - m.z
                        lensq == dx * dx + dz * dz
                        m2 == IF lensq > 0
                              THEN [m EXCEPT !.x = m.x + StepToward(dx, lensq),
                                             !.z = m.z + StepToward(dz, lensq)]
                              ELSE m
                    IN /\ minion' = <<m2>>
                       /\ players' = IF Contact(lensq)
                                     THEN [players EXCEPT ![t.id].hp = Damaged(t.hp, ContactDamage)]
                                     ELSE players
                       /\ out' = (IF Contact(lensq)
                                  THEN <<Broadcast([type |-> "hit", targetId |-> t.id,
                                                    hp |-> players'[t.id].hp])>>
                                       \o checkWinCondition(players', minion')
                                  ELSE <<>>)
                                 \o <<Broadcast([type |-> "minion-update",
                                                 x |-> m2.x, z |-> m2.z, hp |-> m2.hp])>>
                       /\ evalRan' = Contact(lensq)
    /\ winners' = winners \cup WinnersIn(out')
    /\ last' = [type |-> "tick"]
    /\ UNCHANGED <<hasState, order, started, lastHitTime, negSeen, joined>>

----------------------------------------------------------------------------
\* one event, counted against the bound of the exploration
Counted(A) == events < MaxEvents /\ A /\ events' = events + 1

Next ==
    \/ \E c \in Conns : Counted(OnConnect(c))
    \/ \E c \in Members : Counted(OnClose(c))
    \/ \E c \in Members : Counted(Join(c))
    \/ \E c \in Conns, idx \in CharIndexes : Counted(SelectChar(c, idx))
    \/ \E c \in Members, id \in Members, mv \in Moves : Counted(Move(c, id, mv))
    \/ \E k \in 1..Cardinality(Conns) : Counted(StartGame(k))
    \/ \E t \in Members, s \in Members \cup {NoSourceId}, dmg \in Damages :
            Counted(Hit(t, s, dmg))
    \/ \E dmg \in MinionDamages : Counted(MinionHit(dmg))
    \/ \E id \in Conns, w \in Weapons : Counted(Pickup(id, w))
    \/ Counted(UnknownType)
    \/ Counted(MinionInterval)

Spec == Init /\ [][Next]_vars

\* the same events, every hit carrying a whole number of points as damage
IntDamages == {d \in Damages : d % HpUnit = 0}

NextInt ==
    \/ \E c \in Conns : Counted(OnConnect(c))
    \/ \E c \in Members : Counted(OnClose(c))
    \/ \E c \in Members : Counted(Join(c))
    \/ \E c \in Conns, idx \in CharIndexes : Counted(SelectChar(c, idx))
    \/ \E c \in Members, id \in Members, mv \in Moves : Counted(Move(c, id, mv))
    \/ \E k \in 1..Cardinality(Conns) : Counted(StartGame(k))
    \/ \E t \in Members, s \in Members \cup {NoSourceId}, dmg \in IntDamages :
            Counted(Hit(t, s, dmg))
    \/ \E dmg \in MinionDamages : Counted(MinionHit(dmg))
    \/ \E id \in Conns, w \in Weapons : Counted(Pickup(id, w))
    \/ Counted(UnknownType)
    \/ Counted(MinionInterval)

SpecInt == Init /\ [][NextInt]_vars

----------------------------------------------------------------------------
(* A started two-player game left to the minion loop alone: the Minion is at *)
(* its spawn, the one Runner stands within contact range with hp > 0, no     *)
(* client message arrives and setInterval keeps firing the callback.         *)

\* positions within 3.5 of the spawn: the default (0,0) and the near moves
ContactSpots ==
    {[x |-> 0, z |-> 0, rot |-> 0]} \cup
    {mv \in Moves : ~BeyondInitMinDist(mv, [x |-> 0, z |-> 0])
                    /\ DistSq(mv, [x |-> 0, z |-> 0]) < ContactRange * ContactRange}

InitLive ==
    /\ hasState = TRUE
    /\ order = <<"a", "b">>
    /\ \E h \in Members, spot \in ContactSpots,
          rhp \in {1, DefaultHp}, hhp \in {0, DefaultHp, HealCap} :
          players = [id \in Members |->
                       IF id = h
                       THEN [NewPlayer(id) EXCEPT !.role = "hunter", !.hp = hhp]
                       ELSE [NewPlayer(id) EXCEPT !.x = spot.x, !.z = spot.z,
                                                  !.rot = spot.rot, !.hp = rhp]]
    /\ minion = <<[x |-> 0, z |-> 0, hp |-> MinionHp]>>
    /\ started = TRUE
    /\ lastHitTime = 0
    /\ out = <<>>
    /\ last = [type |-> "none"]
    /\ evalRan = FALSE
    /\ winners = {}
    /\ negSeen = FALSE
    /\ joined = FALSE
    /\ events = 0

NextLive == MinionInterval /\ UNCHANGED events

SpecLive == InitLive /\ [][NextLive]_vars /\ WF_vars(NextLive)

----------------------------------------------------------------------------
(* Properties *)

Ids == DOMAIN players
Hunters(ps) == {id \in DOMAIN ps : ps[id].role = "hunter"}
Runners(ps) == {id \in DOMAIN ps : ps[id].role = "runner"}
MsgTypes(msgs) == [i \in 1..Len(msgs) |-> msgs[i].msg.type]

\* C1: in every reachable state where started is true, exactly one Player
\* holds role Hunter, joins and re-joins after start-game included.
C1_ExactlyOneHunter == started => Cardinality(Hunters(players)) = 1

\* C2: a start-game on a roster of N >= 1 players yields exactly one Hunter
\* taken from the roster and N-1 Runners, every hp 100, every weapon "none",
\* a Minion at (0,0) with hp 500 and started = true; on an empty roster it
\* changes no field of the session and broadcasts nothing.
C2_StartGame ==
    [][last'.type = "start-game" =>
         IF Ids = {}
         THEN /\ <<order, players, minion, started, lastHitTime>>' =
                     <<order, players, minion, started, lastHitTime>>
              /\ out' = <<>>
         ELSE /\ DOMAIN players' = Ids
              /\ Cardinality(Hunters(players')) = 1
              /\ Cardinality(Runners(players')) = Cardinality(Ids) - 1
              /\ \A id \in Ids : /\ players'[id].hp = 100 * HpUnit
                                 /\ players'[id].weapon = "none"
              /\ minion' = <<[x |-> 0, z |-> 0, hp |-> 500 * HpUnit]>>
              /\ started' = TRUE
              /\ MsgTypes(out') = <<"game-start">>]_vars

\* a start-game on a roster of two has just made the later joiner the Hunter
C2_Witness ==
    /\ last.type = "start-game"
    /\ Cardinality(Ids) = 2
    /\ started
    /\ Hunters(players) = {order[2]}

\* C3 as stated: over hit events with non-negative damage the hp of every
\* Player, the hit's source included, never increases and is never below 0.
C3_HitNeverRaisesHp ==
    [][(last'.type = "hit" /\ last'.damage >= 0) =>
         \A id \in Ids : players'[id].hp <= players[id].hp /\ players'[id].hp >= 0]_vars

\* C3 amended: over hit events with non-negative damage no hp is below 0, and
\* the only hp that increases is that of the Hunter named by sourceId when the
\* target's floor-clamped hp is 0 (the heal rule).
C3_HitLowersHpExceptHeal ==
    [][(last'.type = "hit" /\ last'.damage >= 0) =>
         \A id \in Ids :
            /\ players'[id].hp >= 0
            /\ players'[id].hp > players[id].hp =>
                  /\ id = last'.sourceId
                  /\ players[id].role = "hunter"
                  /\ last'.targetId \in Ids
                  /\ players[last'.targetId].hp - last'.damage <= 0]_vars

\* a hit has just brought its target from above 0 down to 0 and healed its source
C3_Witness ==
    /\ last.type = "hit"
    /\ last.damage > 0
    /\ last.targetId \in Ids
    /\ last.sourceId \in Ids
    /\ last.sourceId # last.targetId
    /\ players[last.targetId].hp = 0
    /\ players[last.sourceId].hp = 120 * HpUnit

\* C4: while no negative damage has been sent, every Player's hp is within
\* 0..150 and a Player with hp above 100 holds role Hunter.
C4_HpRange ==
    ~negSeen =>
        \A id \in Ids :
            /\ players[id].hp >= 0
            /\ players[id].hp <= 150 * HpUnit
            /\ players[id].hp > 100 * HpUnit => players[id].role = "hunter"

\* a Hunter stands at the ceiling of 150 with no negative damage ever sent
C4_Witness ==
    /\ ~negSeen
    /\ \E id \in Ids : players[id].hp = 150 * HpUnit /\ players[id].role = "hunter"

\* C5: a hit on a known target whose floor-clamped hp is 0, with a sourceId
\* naming a Player with role Hunter, sets that Hunter's hp to min(150, hp + 20),
\* also when the target was already at 0; in every other case a hit changes
\* no hp but the target's.
C5_HealRule ==
    [][(last'.type = "hit" /\ last'.targetId \in Ids) =>
         LET t == last'.targetId
             s == last'.sourceId
             thp == IF players[t].hp - last'.damage < 0 THEN 0
                    ELSE players[t].hp - last'.damage
             heals == thp = 0 /\ s \in Ids /\ players[s].role = "hunter"
             shp == IF s = t THEN thp ELSE players[s].hp
         IN \A id \in Ids :
               players'[id].hp =
                  IF heals /\ id = s
                  THEN (IF shp + 20 * HpUnit > 150 * HpUnit THEN 150 * HpUnit
                        ELSE shp + 20 * HpUnit)
                  ELSE IF id = t THEN thp ELSE players[id].hp]_vars

\* two players, five events, no negative damage: the Hunter's 140 hp can only
\* come from a killing hit followed by a hit on the already-dead target
C5_Witness ==
    /\ events = 5
    /\ ~negSeen
    /\ last.type = "hit"
    /\ Cardinality(Ids) = 2
    /\ \E id \in Ids : players[id].role = "hunter" /\ players[id].hp = 140 * HpUnit

GameOvers(msgs) == SelectSeq(msgs, LAMBDA m : m.msg.type = "game-over")
NoLivingRunner(ps) == \A id \in DOMAIN ps : ~(ps[id].role = "runner" /\ ps[id].hp > 0)
NoLivingHunter(ps) == \A id \in DOMAIN ps : ~(ps[id].role = "hunter" /\ ps[id].hp > 0)
NoLivingMinion(m) == m = <<>> \/ m[1].hp <= 0
HunterWinsMsg ==
    [kind |-> "broadcast", without |-> {},
     msg |-> [type |-> "game-over", winner |-> "Hunter", reason |-> "Runners Eliminated"]]
RunnersWinMsg ==
    [kind |-> "broadcast", without |-> {},
     msg |-> [type |-> "game-over", winner |-> "Runners", reason |-> "Hunter & Minion Defeated"]]

\* C6: each run of the win-condition evaluator broadcasts game-over for the
\* Hunter when no Runner lives (whatever the Hunter's hp), else game-over for
\* the Runners when no Hunter lives and the Minion is absent or at hp <= 0,
\* else nothing; it changes no field of the session, and no game-over is
\* broadcast without it.
C6_Evaluator ==
    [][/\ evalRan' =>
            /\ GameOvers(out') =
                  IF NoLivingRunner(players') THEN <<HunterWinsMsg>>
                  ELSE IF NoLivingHunter(players') /\ NoLivingMinion(minion')
                       THEN <<RunnersWinMsg>>
                       ELSE <<>>
            /\ <<order, started, lastHitTime>>' = <<order, started, lastHitTime>>
            /\ \A id \in Ids : [players'[id] EXCEPT !.hp = 0] = [players[id] EXCEPT !.hp = 0]
            /\ last'.type = "minion-hit" => players' = players
       /\ ~evalRan' => GameOvers(out') = <<>>]_vars

\* the evaluator has just declared the Runners winners: a Runner lives, the
\* Hunter is at hp 0 and the Minion is gone
C6_Witness ==
    /\ evalRan
    /\ GameOvers(out) = <<RunnersWinMsg>>
    /\ minion = <<>>
    /\ \E id \in Ids : players[id].role = "hunter" /\ players[id].hp = 0

\* C7: on a tick with started true and a Minion present, a selected target at
\* pre-movement distance d with 0 <= d < 3.5 loses 0.5 hp (floored at 0), the
\* hit {targetId, hp} is broadcast and the evaluator runs.
C7_ContactDamage ==
    [][(last'.type = "tick" /\ hasState /\ started /\ minion # <<>>) =>
         LET n == Nearest(players, order, minion[1]) IN
         (n # <<>> /\ DistSq(players[n[1]], minion[1]) < ContactRange * ContactRange) =>
            LET t == n[1]
                hp == IF players[t].hp - HpUnit \div 2 < 0 THEN 0
                      ELSE players[t].hp - HpUnit \div 2
            IN /\ players'[t].hp = hp
               /\ \E i \in 1..Len(out') :
                     out'[i].msg = [type |-> "hit", targetId |-> t, hp |-> hp]
               /\ evalRan']_vars

\* C8: there is no terminal latch: once a game-over has named a winner, every
\* hit on a known target, lethal minion-hit and damaging tick after which that
\* winner's condition holds broadcasts the game-over again, and a game-over
\* leaves started and lastHitTime as they were.
C8_NoLatch ==
    [][LET qualifying ==
               \/ last'.type = "hit" /\ last'.targetId \in Ids
               \/ last'.type = "minion-hit" /\ minion # <<>>
                                            /\ minion[1].hp - last'.damage <= 0
               \/ last'.type = "tick" /\ \E i \in 1..Len(out') : out'[i].msg.type = "hit"
           hunterWins == NoLivingRunner(players')
           runnersWin == /\ ~NoLivingRunner(players')
                         /\ NoLivingHunter(players')
                         /\ NoLivingMinion(minion')
       IN /\ ("Hunter" \in winners /\ qualifying /\ hunterWins) => HunterWinsMsg \in Range(out')
          /\ ("Runners" \in winners /\ qualifying /\ runnersWin) => RunnersWinMsg \in Range(out')
          /\ GameOvers(out') # <<>> => started' = started /\ lastHitTime' = lastHitTime]_vars

\* two players, five events, no negative damage, the Hunter at 140: the fourth
\* event killed the only Runner (game-over), the fifth hit it again, and the
\* game-over is broadcast once more
C8_Witness ==
    /\ events = 5
    /\ ~negSeen
    /\ Cardinality(Ids) = 2
    /\ \E id \in Ids : players[id].role = "hunter" /\ players[id].hp = 140 * HpUnit
    /\ HunterWinsMsg \in Range(out)
    /\ "Hunter" \in winners

\* C9: a minion-hit on a present Minion subtracts the damage without a floor
\* and broadcasts the result; a result <= 0 removes the Minion and runs the
\* evaluator, a result > 0 keeps the Minion and does not run it; an absent
\* Minion stays absent, and ticks do nothing, until the next start-game.
C9_MinionHit ==
    [][/\ (last'.type = "minion-hit" /\ minion # <<>>) =>
            LET hp == minion[1].hp - last'.damage IN
            /\ out'[1] = [kind |-> "broadcast", without |-> {},
                          msg |-> [type |-> "minion-hit", hp |-> hp]]
            /\ hp <= 0 => minion' = <<>> /\ evalRan'
            /\ hp > 0 => /\ minion' = <<[x |-> minion[1].x, z |-> minion[1].z, hp |-> hp]>>
                         /\ ~evalRan'
                         /\ Len(out') = 1
       /\ (minion = <<>> /\ last'.type # "start-game") => minion' = <<>>
       /\ (minion = <<>> /\ last'.type = "tick") =>
            /\ out' = <<>>
            /\ <<hasState, order, players, started, lastHitTime>>' =
                  <<hasState, order, players, started, lastHitTime>>]_vars

\* a minion-hit has just broadcast a negative hp and removed the Minion
C9_Witness ==
    /\ last.type = "minion-hit"
    /\ Len(out) >= 1
    /\ out[1].msg.type = "minion-hit"
    /\ out[1].msg.hp < 0
    /\ minion = <<>>
    /\ evalRan

\* C10: a tick while the session does not exist, started is false or the
\* Minion is absent changes nothing and broadcasts nothing; any other tick
\* broadcasts exactly one minion-update with the Minion's current x, z, hp,
\* and with no living Runner it moves no Minion and changes no Player.
C10_TickFrame ==
    [][last'.type = "tick" =>
         IF ~hasState \/ ~started \/ minion = <<>>
         THEN /\ <<hasState, order, players, minion, started, lastHitTime>>' =
                    <<hasState, order, players, minion, started, lastHitTime>>
              /\ out' = <<>>
         ELSE /\ minion' # <<>>
              /\ SelectSeq(out', LAMBDA m : m.msg.type = "minion-update") =
                    <<[kind |-> "broadcast", without |-> {},
                       msg |-> [type |-> "minion-update", x |-> minion'[1].x,
                                z |-> minion'[1].z, hp |-> minion'[1].hp]]>>
              /\ NoLivingRunner(players) =>
                    /\ minion' = minion
                    /\ players' = players
                    /\ Len(out') = 1]_vars

\* a tick has just run in a started game whose Runner, away from the Minion,
\* is dead: only the minion-update went out and the Minion is still at (0,0)
C10_Witness ==
    /\ last.type = "tick"
    /\ started
    /\ minion # <<>>
    /\ minion[1].x = 0 /\ minion[1].z = 0
    /\ \E id \in Ids : players[id].role = "runner" /\ players[id].x # 0
    /\ NoLivingRunner(players)
    /\ MsgTypes(out) = <<"minion-update">>

\* C11: a move for an existing player overwrites only that player's x, z and
\* rot, and its update reaches every connection of the room except the one
\* that sent the move, which receives nothing for it.
C11_MoveNoEcho ==
    [][(last'.type = "move" /\ last'.id \in Ids) =>
         /\ DOMAIN players' = Ids
         /\ \A id \in Ids \ {last'.id} : players'[id] = players[id]
         /\ players'[last'.id].x = last'.x
         /\ players'[last'.id].z = last'.z
         /\ players'[last'.id].rot = last'.rot
         /\ [players'[last'.id] EXCEPT !.x = 0, !.z = 0, !.rot = 0] =
               [players[last'.id] EXCEPT !.x = 0, !.z = 0, !.rot = 0]
         /\ <<order, minion, started, lastHitTime>>' = <<order, minion, started, lastHitTime>>
         /\ Len(out') = 1
         /\ out'[1].msg = [type |-> "update", id |-> last'.id,
                           pos |-> [x |-> last'.x, z |-> last'.z], rot |-> last'.rot]
         /\ \A c \in Conns \ {last'.conn} : Receives(c, out'[1])
         /\ ~Receives(last'.conn, out'[1])]_vars

\* a connection has just moved another connection's player to x = 4.0
C11_Witness ==
    /\ last.type = "move"
    /\ last.id \in Ids
    /\ last.conn # last.id
    /\ players[last.id].x = 4 * PosUnit
    /\ Len(out) = 1
    /\ ~Receives(last.conn, out[1])

\* C12: the set of player identities never shrinks, whatever the event, tick
\* or connection close; a join for an identity already in the roster replaces
\* that entry with the defaults (Runner, hp 100, weapon "none", charIndex 0,
\* position (0,0), rot 0) and leaves every other entry unchanged.
C12_RosterNeverShrinks ==
    [][/\ Ids \subseteq DOMAIN players'
       /\ \A i \in 1..Len(order) : order'[i] = order[i]
       /\ last'.type = "close" => players' = players
       /\ (last'.type = "join" /\ last'.conn \in Ids) =>
            /\ DOMAIN players' = Ids
            /\ players'[last'.conn] =
                  [id |-> last'.conn, x |-> 0, z |-> 0, rot |-> 0, role |-> "runner",
                   hp |-> 100 * HpUnit, weapon |-> "none", charIndex |-> 0]
            /\ \A id \in Ids \ {last'.conn} : players'[id] = players[id]]_vars

\* the first of two players has just re-joined a started game, the other is the Hunter
C12_Witness ==
    /\ last.type = "join"
    /\ Len(order) = 2
    /\ order[1] = last.conn
    /\ started
    /\ players[order[2]].role = "hunter"
    /\ players[order[1]].role = "runner"

\* C13: a message of unknown type, a select-char, move, hit or pickup naming a
\* player that is not in the roster, and a minion-hit with no Minion leave
\* players, Minion and started as they were, broadcast nothing and do not run
\* the evaluator.
C13_UnknownReference ==
    [][(\/ last'.type = "unknown"
        \/ last'.type = "select-char" /\ last'.conn \notin Ids
        \/ last'.type \in {"move", "pickup"} /\ last'.id \notin Ids
        \/ last'.type = "hit" /\ last'.targetId \notin Ids
        \/ last'.type = "minion-hit" /\ minion = <<>>) =>
         /\ <<order, players, minion, started, lastHitTime>>' =
               <<order, players, minion, started, lastHitTime>>
         /\ out' = <<>>
         /\ ~evalRan']_vars

\* a pickup has just named an id that a non-empty roster does not hold
C13_Witness ==
    /\ last.type = "pickup"
    /\ last.id \notin Ids
    /\ Ids # {}
    /\ out = <<>>

\* C14 as stated: with whole-number damage in every hit, every Player's hp is
\* a whole number in every reachable state.
C14_HpIsInteger == \A id \in Ids : players[id].hp % HpUnit = 0

\* C14 amended: with whole-number damage in every hit, every Player's hp is a
\* whole multiple of 0.5 in every reachable state.
C14_HpIsHalfInteger == \A id \in Ids : players[id].hp % (HpUnit \div 2) = 0

\* a tick has just left a Player at a whole number of points and a half
C14_Witness ==
    /\ last.type = "tick"
    /\ \E id \in Ids : players[id].hp % HpUnit = HpUnit \div 2

LivingRunners(ps) == {id \in DOMAIN ps : ps[id].role = "runner" /\ ps[id].hp > 0}
\* p is no farther from m than q is
NotFarther(p, q, m) ==
    \/ BeyondInitMinDist(q, m)
    \/ ~BeyondInitMinDist(p, m) /\ DistSq(p, m) <= DistSq(q, m)
IndexOf(id) == CHOOSE i \in 1..Len(order) : order[i] = id

\* C15: on a tick with started true and a Minion present a target is selected
\* exactly when some Player is a Runner with hp > 0, at any distance; the
\* target is the first in roster order of the living Runners nearest to the
\* Minion; no Hunter and no Player at hp 0 loses hp in the tick.
C15_NearestLivingRunner ==
    [][(last'.type = "tick" /\ hasState /\ started /\ minion # <<>>) =>
         LET m == minion[1]
             n == Nearest(players, order, m)
             living == LivingRunners(players)
         IN /\ (n # <<>>) <=> (living # {})
            /\ n # <<>> =>
                 /\ n[1] \in living
                 /\ \A id \in living :
                       /\ NotFarther(players[n[1]], players[id], m)
                       /\ NotFarther(players[id], players[n[1]], m) =>
                             IndexOf(n[1]) <= IndexOf(id)
            /\ \A id \in Ids \ living : players'[id].hp = players[id].hp]_vars

\* C16: select-char, move and pickup change no Player's hp or role, nor the
\* Minion, nor started, and cause no game-over; select-char changes only the
\* sending connection's charIndex and pickup only the named player's weapon.
C16_CosmeticEvents ==
    [][last'.type \in {"select-char", "move", "pickup"} =>
         /\ DOMAIN players' = Ids
         /\ \A id \in Ids : /\ players'[id].hp = players[id].hp
                            /\ players'[id].role = players[id].role
         /\ minion' = minion
         /\ started' = started
         /\ GameOvers(out') = <<>>
         /\ ~evalRan'
         /\ last'.type = "select-char" =>
               \A id \in Ids :
                  IF id = last'.conn
                  THEN players'[id] = [players[id] EXCEPT !.charIndex = last'.charIndex]
                  ELSE players'[id] = players[id]
         /\ last'.type = "pickup" =>
               \A id \in Ids :
                  IF id = last'.id
                  THEN players'[id] = [players[id] EXCEPT !.weapon = last'.weapon]
                  ELSE players'[id] = players[id]]_vars

\* a pickup has just armed a player of a started game in which no Runner
\* lives, and no game-over went out
C16_Witness ==
    /\ last.type = "pickup"
    /\ last.id \in Ids
    /\ players[last.id].weapon = "sword"
    /\ started
    /\ NoLivingRunner(players)
    /\ MsgTypes(out) = <<"pickup">>

\* C17: in a started game with a Minion, one living Runner standing still
\* within contact range (the Minion's own position included) and no client
\* events, fair ticking eventually brings the Runner's hp to 0 and broadcasts
\* game-over with winner Hunter.
C17_RunnerEventuallyDies ==
    <>(NoLivingRunner(players) /\ HunterWinsMsg \in Range(out))

\* C18 as stated: no game-over is broadcast while started is false.
C18_NoGameOverInLobby == ~started => GameOvers(out) = <<>>

\* C18 amended: while started is false a hit on a known target always
\* broadcasts a game-over (winner Runners while some Player has hp > 0, winner
\* Hunter once none has) and no other event, minion-hit included, does.
C18_LobbyGameOver ==
    [][~started' =>
         GameOvers(out') =
            IF last'.type = "hit" /\ last'.targetId \in Ids
            THEN (IF \E id \in Ids : players'[id].hp > 0
                  THEN <<RunnersWinMsg>> ELSE <<HunterWinsMsg>>)
            ELSE <<>>]_vars

\* a hit in the lobby has just announced the Runners as winners
C18_Witness ==
    /\ ~started
    /\ last.type = "hit"
    /\ GameOvers(out) = <<RunnersWinMsg>>

\* C19 as stated: between two start-game events with no join in between, all
\* game-over broadcasts name the same winner.
C19_OneWinner == (started /\ ~joined) => Cardinality(winners) <= 1

\* C19 amended: between two start-game events with no join in between and no
\* negative damage, once the Hunter has been named winner no later game-over
\* names the Runners.
C19_HunterWinIsFinal ==
    [][(started /\ ~joined' /\ ~negSeen' /\ "Hunter" \in winners) =>
         "Runners" \notin WinnersIn(out')]_vars

\* the Hunter was named winner, then lost its own hp, and the minion-hit that
\* removes the Minion has just named the Hunter again
C19_Witness ==
    /\ started
    /\ ~joined
    /\ ~negSeen
    /\ last.type = "minion-hit"
    /\ evalRan
    /\ Cardinality(Ids) = 2
    /\ \E id \in Ids : players[id].role = "hunter" /\ players[id].hp = 0
    /\ \E id \in Ids : players[id].role = "runner" /\ players[id].hp = 0
    /\ winners = {"Hunter"}

\* the Minion hp values a message shows: the hp of minion-hit and
\* minion-update, and the Minion inside a state snapshot
MinionHpIn(m) ==
    IF m.type \in {"minion-hit", "minion-update"} THEN {m.hp}
    ELSE IF "state" \in DOMAIN m /\ m.state.minion # <<>> THEN {m.state.minion[1].hp}
    ELSE {}

\* C20: between events a present Minion implies started and Minion hp > 0; a
\* Minion hp <= 0 is shown only by the minion-hit broadcast of the event that
\* removes the Minion.
C20_MinionPresence ==
    /\ minion # <<>> => (started /\ minion[1].hp > 0)
    /\ \A i \in 1..Len(out) : \A hp \in MinionHpIn(out[i].msg) :
          hp <= 0 => /\ out[i].msg.type = "minion-hit"
                     /\ last.type = "minion-hit"
                     /\ minion = <<>>

\* non-negative minion-hits have just taken the Minion to exactly 0: the
\* broadcast shows hp 0 and the Minion is gone
C20_Witness ==
    /\ ~negSeen
    /\ started
    /\ last.type = "minion-hit"
    /\ Len(out) >= 1
    /\ out[1].msg = [type |-> "minion-hit", hp |-> 0]
    /\ minion = <<>>

====
